---- MODULE Spec2Model ----
(***************************************************************************)
(* Model of the stock ranking pipeline of stock_data.py and notifier.py:   *)
(* fetch_history, rank_top_performers, merge_top_history, format_summary,  *)
(* of the command-line entry points main.main and notifier.main, and of    *)
(* the load step of dashboard.py with its cache.                           *)
(*                                                                         *)
(* A price is a natural number of 1/PriceDenom dollars (exactly            *)
(* representable binary fractions, so that the exact arithmetic of the     *)
(* model and the float arithmetic of numpy agree); a missing cell is NaN.  *)
(* A rounded price is a number of cents, a rounded percentage a number of  *)
(* hundredths of a percent.  A column label is a record (field, ticker):   *)
(* a plain ticker column has no field, a plain field column no ticker, a   *)
(* column of a two-level (MultiIndex) frame has both.                      *)
(***************************************************************************)
EXTENDS Integers, Sequences, FiniteSets, TLC

VARIABLES
    pc,         \* "called": the call is made; "done": it has returned or raised;
                \* "loaded": a dashboard run is between its lines 102 and 103
    call,       \* the call: [op, tickers, days, top_n, now]
    downloads,  \* the responses of the yf.download calls issued during the call
    closes,     \* the price table the call holds (fetch_history's return value)
    summary,    \* the summary of rank_top_performers (a sequence of rows)
    melted,     \* the long-format rows of merge_top_history
    result,     \* how the call ended: [exc, msg]
    exit_status,\* the exit status of the process of a command-line run
    cache,      \* st.cache_data of _load_data: (tickers, days) -> [frame, time]
    clock,      \* the time of the latest script run on the server, in seconds
    runs,       \* the number of script runs of the dashboard so far
    others,     \* the number of script runs of other sessions so far
    pending,    \* a rerun request the current script run has yet to honour
    feed        \* the provider a dashboard is served by: [group, tick]

cli_vars == <<exit_status>>

dash_vars == <<cache, clock, runs, others, pending, feed>>

vars == <<pc, call, downloads, closes, summary, melted, result,
          exit_status, cache, clock, runs, others, pending, feed>>

----------------------------------------------------------------------------
(* Bounds of the model *)

MaxDates == 3          \* rows of a provider response to a fetch_history call
MaxRankDates == 2      \* rows of a provider response to a ranking call
MaxPrice == 2          \* largest price, in 1/PriceDenom dollars
MaxDays == 2           \* largest `days` argument
MaxTop == 2            \* largest `top_n` argument
MaxWindowDays == 12    \* largest `days` argument of the calendar specification
PriceDenom == 8        \* price grid: 1/8 dollar
MaxRunDates == 1       \* rows of a provider response to an application run
MaxRuns == 2           \* script runs of a dashboard
MaxOtherRuns == 1      \* script runs of other sessions of the dashboard

(* pandas' missing value *)
NaN == -1

(* timedelta(days=days + 5) *)
WindowPadding == 5

Cells == {NaN} \cup (0..MaxPrice)

Min(a, b) == IF a <= b THEN a ELSE b

----------------------------------------------------------------------------
(* Ticker strings: sequences of characters *)

NoField == ""
NoTicker == <<>>

(* str.upper() *)
UpperChar(c) == IF c = "a" THEN "A" ELSE IF c = "b" THEN "B" ELSE c

Upper(s) == [i \in 1..Len(s) |-> UpperChar(s[i])]

(* str.strip(): drop the leading and the trailing white space *)
RECURSIVE LStrip(_)
LStrip(s) == IF s # <<>> /\ Head(s) = " " THEN LStrip(Tail(s)) ELSE s

RECURSIVE RStrip(_)
RStrip(s) ==
    IF s # <<>> /\ s[Len(s)] = " " THEN RStrip(SubSeq(s, 1, Len(s) - 1)) ELSE s

Strip(s) == RStrip(LStrip(s))

(* [t.strip().upper() for t in ticker_list if t.strip()] *)
RECURSIVE NormalizeTickers(_)
NormalizeTickers(list) ==
    IF list = <<>> THEN <<>>
    ELSE LET rest == NormalizeTickers(Tail(list))
         IN  IF Strip(Head(list)) # <<>>
             THEN <<Upper(Strip(Head(list)))>> \o rest
             ELSE rest

(* The ticker collections a caller passes *)
TickerInputs ==
    { <<>>,
      << <<" ">> >>,
      << <<" ", "a">> >>,
      << <<>>, <<"b">> >>,
      << <<"a">>, <<"B", " ">> >> }

(* The symbols the provider knows, in the order of its columns *)
TickerUniverse == << <<"A">>, <<"B">> >>

SeqRange(s) == {s[i] : i \in 1..Len(s)}

----------------------------------------------------------------------------
(* Data frames: [columns, nlevels, index, values], values[r][c] the cell   *)
(* of row r, column c; index holds the dates, ascending; nlevels is 2 when *)
(* the columns are a MultiIndex (which a frame keeps when it loses all its *)
(* columns), 1 otherwise.                                                  *)

EmptyFrame == [columns |-> <<>>, nlevels |-> 1, index |-> <<>>, values |-> <<>>]

TickerLabel(t) == [field |-> NoField, ticker |-> t]
FieldLabel(f) == [field |-> f, ticker |-> NoTicker]
NestedLabel(f, t) == [field |-> f, ticker |-> t]

(* The number of levels of an index built from the labels *)
LabelLevels(labels) ==
    IF /\ labels # <<>>
       /\ labels[1].field # NoField
       /\ labels[1].ticker # NoTicker
    THEN 2 ELSE 1

(* DataFrame.empty: some axis has length 0 *)
IsEmpty(df) == Len(df.columns) = 0 \/ Len(df.index) = 0

(* The positions of s that satisfy Keep, ascending *)
RECURSIVE KeptPositions(_, _)
KeptPositions(n, keep) ==
    IF n = 0 THEN <<>>
    ELSE IF n \in keep THEN Append(KeptPositions(n - 1, keep), n)
         ELSE KeptPositions(n - 1, keep)

TakeColumns(df, pos) ==
    [columns |-> [i \in 1..Len(pos) |-> df.columns[pos[i]]],
     nlevels |-> df.nlevels,
     index   |-> df.index,
     values  |-> [r \in 1..Len(df.index) |->
                    [i \in 1..Len(pos) |-> df.values[r][pos[i]]]]]

TakeRows(df, pos) ==
    [columns |-> df.columns,
     nlevels |-> df.nlevels,
     index   |-> [i \in 1..Len(pos) |-> df.index[pos[i]]],
     values  |-> [i \in 1..Len(pos) |-> df.values[pos[i]]]]

(* dropna(axis=1, how="all"): drop the columns whose every cell is missing *)
DropAllNaColumns(df) ==
    TakeColumns(df, KeptPositions(Len(df.columns),
        {c \in 1..Len(df.columns) :
            \E r \in 1..Len(df.index) : df.values[r][c] # NaN}))

(* dropna(): drop the rows with a missing cell *)
DropNaRows(df) ==
    TakeRows(df, KeptPositions(Len(df.index),
        {r \in 1..Len(df.index) :
            \A c \in 1..Len(df.columns) : df.values[r][c] # NaN}))

(* A slip: the first n rows instead of the last (head for tail) *)
TailRowsFromFront(df, n) ==
    TakeRows(df, KeptPositions(Len(df.index),
        {r \in 1..Len(df.index) : r <= n}))

(* tail(n), n >= 0: the last n rows *)
TailRows(df, n) ==
    TakeRows(df, KeptPositions(Len(df.index),
        {r \in 1..Len(df.index) : r > Len(df.index) - n}))

----------------------------------------------------------------------------
(* The provider (yf.download), outside the program *)

(* One column per distinct requested symbol *)
ProviderColumns(tickers) ==
    KeptPositions(Len(TickerUniverse),
        {i \in 1..Len(TickerUniverse) : TickerUniverse[i] \in SeqRange(tickers)})

(* The frames with the given column labels and the dates 1..n *)
Frames(labels, n) ==
    {[columns |-> labels, nlevels |-> LabelLevels(labels),
      index |-> [r \in 1..n |-> r], values |-> v] :
        v \in [1..n -> [1..Len(labels) -> Cells]]}

FieldGroups == {"Adj Close", "Close"}

(* A response: the download raises, returns no frame at all, or returns a  *)
(* frame that is two-level (field, ticker) or, for one ticker, flat (field) *)
RaiseResponse == [kind |-> "raise", frame |-> EmptyFrame]
MalformedResponse == [kind |-> "malformed", frame |-> EmptyFrame]

(* The shapes of the responses to a request: kind, field group, row count *)
(* (at most maxRows)                                                       *)
ResponseShapes(tickers, maxRows) ==
    {[kind |-> k, group |-> NoField, rows |-> 0] : k \in {"raise", "malformed"}}
        \cup {[kind |-> "nested", group |-> g, rows |-> n] :
                g \in FieldGroups, n \in 0..maxRows}
        \cup {[kind |-> "flat", group |-> g, rows |-> n] :
                g \in FieldGroups,
                n \in {m \in 0..maxRows : Len(ProviderColumns(tickers)) = 1}}

(* The responses of a shape *)
Responses(tickers, shape) ==
    LET cols == ProviderColumns(tickers)
        labels == IF shape.kind = "nested"
                  THEN [i \in 1..Len(cols) |->
                           NestedLabel(shape.group, TickerUniverse[cols[i]])]
                  ELSE <<FieldLabel(shape.group)>>
    IN  IF shape.kind \in {"raise", "malformed"}
        THEN {[kind |-> shape.kind, frame |-> EmptyFrame]}
        ELSE {[kind |-> shape.kind, frame |-> f] :
                 f \in Frames(labels, shape.rows)}

----------------------------------------------------------------------------
(* fetch_history *)

Ok == [exc |-> "none", msg |-> "none"]
Error(exc, msg) == [exc |-> exc, msg |-> msg]

HasAdjClose(data) ==
    \E c \in 1..Len(data.columns) : data.columns[c].field = "Adj Close"

(* data["Adj Close"] of a two-level frame: the columns of that group,      *)
(* labelled by the ticker level                                            *)
SelectAdjClose(data) ==
    LET pos == KeptPositions(Len(data.columns),
                   {c \in 1..Len(data.columns) :
                        data.columns[c].field = "Adj Close"})
        sub == TakeColumns(data, pos)
    IN  [sub EXCEPT !.columns =
            [i \in 1..Len(pos) |-> TickerLabel(sub.columns[i].ticker)],
                    !.nlevels = 1]

(* closes.dropna(axis=1, how="all").dropna() *)
Normalize(df) == DropNaRows(DropAllNaColumns(df))

(* Lines 117-137: what fetch_history makes of the provider's response.     *)
(* [result, frame] *)
ProcessResponse(resp, days) ==
    IF resp.kind = "malformed"
    THEN \* closes = data; closes.empty: None has no such attribute
         [result |-> Error("AttributeError", "no_attribute_empty"),
          frame |-> EmptyFrame]
    ELSE IF resp.kind = "flat" /\ HasAdjClose(resp.frame)
    THEN \* closes = data["Adj Close"] is a Series
         IF Len(resp.frame.index) = 0
         THEN [result |-> Error("ValueError", "no_price_data"),
               frame |-> EmptyFrame]
         ELSE \* Series.dropna(axis=1): no axis named 1
              [result |-> Error("ValueError", "no_axis_named_1"),
               frame |-> EmptyFrame]
    ELSE LET raw == IF HasAdjClose(resp.frame)
                    THEN SelectAdjClose(resp.frame)
                    ELSE resp.frame
         IN  IF IsEmpty(raw)
             THEN [result |-> Error("ValueError", "no_price_data"),
                   frame |-> EmptyFrame]
             ELSE [result |-> Ok, frame |-> TailRows(Normalize(raw), days)]

(* fetch_history(tickers, days), the provider answering resp if asked.     *)
(* [result, frame, io]: io is the sequence of downloads issued             *)
fetch_history(tickers, days, resp) ==
    IF tickers = <<>>
    THEN [result |-> Error("ValueError", "no_tickers"),
          frame |-> EmptyFrame, io |-> <<>>]
    ELSE IF days <= 0
    THEN [result |-> Error("ValueError", "bad_days"),
          frame |-> EmptyFrame, io |-> <<>>]
    ELSE IF NormalizeTickers(tickers) = <<>>
    THEN [result |-> Error("ValueError", "no_valid_tickers"),
          frame |-> EmptyFrame, io |-> <<>>]
    ELSE IF resp.kind = "raise"
    THEN [result |-> Error("RuntimeError", "download_failed"),
          frame |-> EmptyFrame, io |-> <<resp>>]
    ELSE LET p == ProcessResponse(resp, days)
         IN  [result |-> p.result, frame |-> p.frame, io |-> <<resp>>]

(* Whether a call of fetch_history reaches yf.download *)
Downloads(tickers, days) ==
    tickers # <<>> /\ days > 0 /\ NormalizeTickers(tickers) # <<>>

(* The shapes of the responses a call may get: the provider's if it        *)
(* downloads; if it does not, the response is not looked at                *)
AnswerShapes(tickers, days, maxRows) ==
    IF Downloads(tickers, days)
    THEN ResponseShapes(NormalizeTickers(tickers), maxRows)
    ELSE {[kind |-> "raise", group |-> NoField, rows |-> 0]}

Answers(tickers, shape) == Responses(NormalizeTickers(tickers), shape)

----------------------------------------------------------------------------
(* rank_top_performers *)

(* rint(num / den), den > 0: round to the nearest integer, halves to even  *)
(* (numpy's round)                                                         *)
RoundHalfEven(num, den) ==
    LET q == num \div den
        r == num % den
    IN  IF 2 * r < den THEN q
        ELSE IF 2 * r > den THEN q + 1
        ELSE IF q % 2 = 0 THEN q ELSE q + 1

(* Series.round(2) of a price: the number of cents *)
RoundPrice(p) == RoundHalfEven(p * 100, PriceDenom)

(* A float percentage: a number of hundredths of a percent, inf or nan *)
Num(v) == [k |-> "num", v |-> v]
Inf == [k |-> "inf", v |-> 0]
NanPct == [k |-> "nan", v |-> 0]

(* ((end - start) / start * 100).round(2) in float arithmetic: x / 0 is    *)
(* inf for x > 0 and nan for x = 0 (prices are not negative)               *)
PctChange(start, end) ==
    IF start = 0
    THEN IF end = 0 THEN NanPct ELSE Inf
    ELSE Num(RoundHalfEven((end - start) * 10000, start))

(* a > b and a = b on floats *)
PctGt(a, b) ==
    /\ a.k # "nan" /\ b.k # "nan"
    /\ \/ a.k = "inf" /\ b.k = "num"
       \/ a.k = "num" /\ b.k = "num" /\ a.v > b.v

PctEq(a, b) == a.k # "nan" /\ b.k # "nan" /\ a.k = b.k /\ a.v = b.v

PctGe(a, b) == PctGt(a, b) \/ PctEq(a, b)

(* round((end_price - start_price) / start_price * 100, 2) of the rounded  *)
(* prices of a row, in float arithmetic                                    *)
PctOfRounded(row) ==
    IF row.start_price = 0
    THEN IF row.end_price = row.start_price THEN [k |-> "nan", v |-> 0]
         ELSE [k |-> "inf", v |-> 0]
    ELSE [k |-> "num",
          v |-> RoundHalfEven((row.end_price - row.start_price) * 10000,
                              row.start_price)]

(* A slip: the percentage computed from the rounded prices *)
SummaryRowsOfRounded(df) ==
    LET first == df.values[1]
        last == df.values[Len(df.index)]
    IN  [c \in 1..Len(df.columns) |->
            LET row == [ticker      |-> df.columns[c],
                        start_price |-> RoundPrice(first[c]),
                        end_price   |-> RoundPrice(last[c]),
                        pct_change  |-> NanPct]
            IN  [row EXCEPT !.pct_change = PctOfRounded(row)]]

(* The unsorted summary: one row per column of closes, in column order *)
SummaryRows(df) ==
    LET first == df.values[1]
        last == df.values[Len(df.index)]
    IN  [c \in 1..Len(df.columns) |->
            [ticker      |-> df.columns[c],
             start_price |-> RoundPrice(first[c]),
             end_price   |-> RoundPrice(last[c]),
             pct_change  |-> PctChange(first[c], last[c])]]

(* sort_values("pct_change", ascending=False): descending, equal keys in   *)
(* their original order, nan rows last in their original order             *)
SortsBefore(rows, j, i) ==
    LET a == rows[j].pct_change
        b == rows[i].pct_change
    IN  \/ a.k # "nan" /\ b.k = "nan"
        \/ a.k = "nan" /\ b.k = "nan" /\ j < i
        \/ PctGt(a, b)
        \/ PctEq(a, b) /\ j < i

(* A slip: ascending=True *)
SortAscending(rows) ==
    LET n == Len(rows)
        rank(i) == 1 + Cardinality({j \in 1..n : SortsBefore(rows, i, j)})
    IN  [p \in 1..n |-> rows[CHOOSE i \in 1..n : rank(i) = p]]

SortDescending(rows) ==
    LET n == Len(rows)
        rank(i) == 1 + Cardinality({j \in 1..n : SortsBefore(rows, j, i)})
    IN  [p \in 1..n |-> rows[CHOOSE i \in 1..n : rank(i) = p]]

(* A slip: one row too many *)
HeadRowsOneMore(rows, n) == SubSeq(rows, 1, Min(n + 1, Len(rows)))

(* head(n), n >= 0 *)
HeadRows(rows, n) == SubSeq(rows, 1, Min(n, Len(rows)))

(* rank_top_performers(tickers, days, top_n), the provider answering resp. *)
(* [result, summary, frame, io]                                            *)
rank_top_performers(tickers, days, top_n, resp) ==
    IF top_n <= 0
    THEN [result |-> Error("ValueError", "bad_top_n"),
          summary |-> <<>>, frame |-> EmptyFrame, io |-> <<>>]
    ELSE LET f == fetch_history(tickers, days, resp)
         IN  IF f.result # Ok
             THEN [result |-> f.result, summary |-> <<>>,
                   frame |-> EmptyFrame, io |-> f.io]
             ELSE IF IsEmpty(f.frame)
             THEN [result |-> Error("ValueError", "no_price_data"),
                   summary |-> <<>>, frame |-> f.frame, io |-> f.io]
             ELSE [result |-> Ok,
                   summary |-> HeadRows(SortDescending(SummaryRows(f.frame)),
                                        top_n),
                   frame |-> f.frame, io |-> f.io]

----------------------------------------------------------------------------
(* merge_top_history *)

(* closes[tickers]: for each listed label the columns it selects, in the   *)
(* list's order.  A label selects the column that carries it; on two-level *)
(* columns a plain label selects every column whose first level (the       *)
(* field) it is.                                                           *)
PositionsOf(df, label) ==
    KeptPositions(Len(df.columns),
        {c \in 1..Len(df.columns) :
            \/ df.columns[c] = label
            \/ /\ df.nlevels = 2
               /\ label.ticker = NoTicker
               /\ df.columns[c].field = label.field})

RECURSIVE SelectPositions(_, _)
SelectPositions(df, labels) ==
    IF labels = <<>> THEN <<>>
    ELSE PositionsOf(df, Head(labels)) \o SelectPositions(df, Tail(labels))

(* Whether the columns are a plain index (tickers, or fields) *)
SingleLevel(df) == df.nlevels = 1

(* What melt does on two-level columns depends on the installed pandas:    *)
(* before 2.2 it pops the id column by its first level and names each row  *)
(* by the first level of its column; from 2.2 on it looks "Date" up among  *)
(* the labels, which holds ("Date", "") after reset_index, and raises      *)
(* KeyError                                                                *)
PandasBuilds == {"melt_first_level", "melt_key_error"}

(* reset_index().melt(id_vars="Date", var_name="ticker",                   *)
(* value_name="price"): column after column, each in index order.  The one *)
(* variable name takes the first level of a two-level label: the field.    *)
Melt(df) ==
    LET n == Len(df.index)
    IN  [i \in 1..(n * Len(df.columns)) |->
            LET c == ((i - 1) \div n) + 1
                r == ((i - 1) % n) + 1
            IN  [Date |-> df.index[r],
                 ticker |-> IF SingleLevel(df)
                            THEN df.columns[c]
                            ELSE FieldLabel(df.columns[c].field),
                 price |-> df.values[r][c]]]

(* merge_top_history(summary, closes) on the pandas build `pandas`:        *)
(* [result, melted]                                                        *)
merge_top_history(summ, df, pandas) ==
    LET tickers == [i \in 1..Len(summ) |-> summ[i].ticker]
        pos == SelectPositions(df, tickers)
    IN  IF \E i \in 1..Len(tickers) : PositionsOf(df, tickers[i]) = <<>>
        THEN [result |-> Error("KeyError", "not_in_index"), melted |-> <<>>]
        ELSE IF ~SingleLevel(df) /\ pandas = "melt_key_error"
        THEN [result |-> Error("KeyError", "id_vars_not_present"),
              melted |-> <<>>]
        ELSE [result |-> Ok, melted |-> Melt(TakeColumns(df, pos))]

----------------------------------------------------------------------------
(* notifier.format_summary *)

(* f"{row.ticker}: {row.pct_change}%" for each row: the ticker and the     *)
(* percentage each line shows                                              *)
MessageLines(summ) ==
    [i \in 1..Len(summ) |->
        [ticker |-> summ[i].ticker, pct_change |-> summ[i].pct_change]]

(* format_summary(tickers, days, top_n): fetch_history, answered resp1,    *)
(* then rank_top_performers, answered resp2.                               *)
(* [result, message, summary, frame, io]                                   *)
format_summary(tickers, days, top_n, resp1, resp2) ==
    LET f == fetch_history(tickers, days, resp1)
    IN  IF f.result # Ok
        THEN [result |-> f.result, message |-> <<>>, summary |-> <<>>,
              frame |-> EmptyFrame, io |-> f.io]
        ELSE LET s == rank_top_performers(tickers, days, top_n, resp2)
             IN  [result |-> s.result, message |-> MessageLines(s.summary),
                  summary |-> s.summary, frame |-> f.frame,
                  io |-> f.io \o s.io]

----------------------------------------------------------------------------
(* The window fetch_history asks the provider for.  A date is a day        *)
(* number; day 0 is a Monday, so d % 7 is 5 on Saturdays and 6 on Sundays. *)

(* start = now - timedelta(days + 5), end = now, both as dates *)
RequestWindow(now, days) ==
    [start |-> now - (days + WindowPadding), end |-> now]

IsTradingDay(d) == d % 7 < 5

(* A provider that has a price of every requested ticker on every trading  *)
(* day of the range start <= date < end (yfinance excludes the end date)   *)
CompleteFrame(labels, win) ==
    LET pos == KeptPositions(win.end - win.start,
                   {p \in 1..(win.end - win.start) :
                        IsTradingDay(win.start + p - 1)})
    IN  [columns |-> labels,
         nlevels |-> LabelLevels(labels),
         index   |-> [i \in 1..Len(pos) |-> win.start + pos[i] - 1],
         values  |-> [i \in 1..Len(pos) |->
                        [c \in 1..Len(labels) |-> 1 + ((pos[i] + c) % MaxPrice)]]]

CompleteResponses(tickers, win) ==
    LET cols == ProviderColumns(tickers)
    IN  {[kind |-> "nested",
          frame |-> CompleteFrame([i \in 1..Len(cols) |->
                        NestedLabel(g, TickerUniverse[cols[i]])], win)] :
            g \in FieldGroups}

----------------------------------------------------------------------------
(* The command-line entry points: main.main and notifier.main *)

(* The exit status of the process: none while it runs *)
NoExit == [exited |-> FALSE, code |-> 0]
Exit(n) == [exited |-> TRUE, code |-> n]

(* send_notification(title, message): plyer's notify may fail, and the     *)
(* failure is logged and raised again                                      *)
send_notification(fails) ==
    IF fails THEN Error("Exception", "notification_failed") ELSE Ok

(* display_table(tickers, days, top_n): format_summary, then the table is  *)
(* printed; the message is returned                                        *)
display_table(tickers, days, top_n, resp1, resp2) ==
    format_summary(tickers, days, top_n, resp1, resp2)

(* main.main with the parsed arguments args = [tickers, days, top_n,       *)
(* notify].  [result, exit_status, summary, frame, io]: result is the      *)
(* failure the run logged, Ok if none.  sys.exit(1) after every logged     *)
(* failure; a run that reaches the end of main exits with status 0.        *)
main_main(args, resp1, resp2, fails) ==
    IF args.days <= 0
    THEN [result |-> Error("ArgumentError", "bad_days"), exit_status |-> Exit(1),
          summary |-> <<>>, frame |-> EmptyFrame, io |-> <<>>]
    ELSE IF args.top_n <= 0
    THEN [result |-> Error("ArgumentError", "bad_top_n"), exit_status |-> Exit(1),
          summary |-> <<>>, frame |-> EmptyFrame, io |-> <<>>]
    ELSE LET t == display_table(args.tickers, args.days, args.top_n,
                                resp1, resp2)
             n == IF t.result = Ok /\ args.notify
                  THEN send_notification(fails) ELSE t.result
         IN  [result |-> n,
              exit_status |-> IF n = Ok THEN Exit(0) ELSE Exit(1),
              summary |-> t.summary, frame |-> t.frame, io |-> t.io]

(* notifier.main with the parsed arguments args = [tickers, days, top_n].  *)
(* After an invalid --days or --top the error is logged and main returns:  *)
(* the interpreter ends with status 0.  An exception of format_summary or  *)
(* send_notification is logged and raised again: the interpreter ends with *)
(* status 1 on the uncaught exception.                                     *)
notifier_main(args, resp1, resp2, fails) ==
    IF args.days <= 0
    THEN [result |-> Error("ArgumentError", "bad_days"), exit_status |-> Exit(0),
          summary |-> <<>>, frame |-> EmptyFrame, io |-> <<>>]
    ELSE IF args.top_n <= 0
    THEN [result |-> Error("ArgumentError", "bad_top_n"), exit_status |-> Exit(0),
          summary |-> <<>>, frame |-> EmptyFrame, io |-> <<>>]
    ELSE LET t == format_summary(args.tickers, args.days, args.top_n,
                                 resp1, resp2)
             n == IF t.result = Ok THEN send_notification(fails) ELSE t.result
         IN  [result |-> n,
              exit_status |-> IF n = Ok THEN Exit(0) ELSE Exit(1),
              summary |-> t.summary, frame |-> t.frame, io |-> t.io]

----------------------------------------------------------------------------
(* The dashboard: the sidebar, _load_data behind st.cache_data, and the    *)
(* load step of the script                                                 *)

(* @st.cache_data(ttl=3600) *)
CacheTtl == 3600

(* st.slider(..., min_value=7, ...) for days, min_value=5 for top_n *)
SliderMinDays == 7
SliderMinTop == 5

(* The positions of the sliders: the low end of their ranges (7..90 and    *)
(* 5..20)                                                                  *)
SliderDays == SliderMinDays..(SliderMinDays + MaxDays - 1)
SliderTops == SliderMinTop..(SliderMinTop + MaxTop - 1)

(* The provider a dashboard is served by: it is complete on every window   *)
(* (CompleteFrame), answers with the price field `group`, and has restated *)
(* the prices of the latest date `tick` times.  Other calls do not use it. *)
Feeds(c) ==
    IF c.op = "dashboard"
    THEN {[group |-> g, tick |-> 0] : g \in FieldGroups}
    ELSE {[group |-> "Adj Close", tick |-> 0]}

(* The frame of CompleteFrame, the prices of its latest date restated      *)
(* tick times (each restatement moves a price to the next of the grid)     *)
FeedFrame(labels, win, tick) ==
    LET f == CompleteFrame(labels, win)
        n == Len(f.index)
    IN  [f EXCEPT !.values =
            [i \in 1..n |->
                IF i < n
                THEN f.values[i]
                ELSE [c \in 1..Len(labels) |->
                         1 + ((f.values[i][c] - 1 + tick) % MaxPrice)]]]

(* What the feed fd answers to a download of the normalized tickers over   *)
(* the window win                                                          *)
FeedResponse(tickers, win, fd) ==
    LET cols == ProviderColumns(tickers)
    IN  [kind |-> "nested",
         frame |-> FeedFrame([i \in 1..Len(cols) |->
                      NestedLabel(fd.group, TickerUniverse[cols[i]])],
                      win, fd.tick)]

(* tickers = [t.strip().upper() for t in selected.split(",") if t.strip()] *)
(* on the fields of the text area                                          *)
SidebarTickers(selected) ==
    LET kept == {i \in 1..Len(selected) : Strip(selected[i]) # <<>>}
        pos == KeptPositions(Len(selected), kept)
    IN  [i \in 1..Len(pos) |-> Upper(Strip(selected[pos[i]]))]

(* The entries of the cache c that have not expired at the time now *)
LiveEntries(c, now) == {e \in c : now - e.time < CacheTtl}

(* _load_data(tickers, days) at the time now: the cached frame of the key  *)
(* (tickers, days) if a live entry has it; otherwise fetch_history, whose  *)
(* return value is stored (an exception is not).                           *)
(* [result, frame, io, cache]                                              *)
load_data(c, tickers, days, now, resp) ==
    LET live == LiveEntries(c, now)
        hit == {e \in live : e.tickers = tickers /\ e.days = days}
    IN  IF hit # {}
        THEN [result |-> Ok, frame |-> (CHOOSE e \in hit : TRUE).frame,
              io |-> <<>>, cache |-> live]
        ELSE LET f == fetch_history(tickers, days, resp)
             IN  [result |-> f.result, frame |-> f.frame, io |-> f.io,
                  cache |-> IF f.result = Ok
                            THEN live \cup {[tickers |-> tickers, days |-> days,
                                             frame |-> f.frame, time |-> now]}
                            ELSE live]

(* isinstance(prices.columns, pd.MultiIndex) *)
IsMultiIndex(df) == df.nlevels = 2

(* prices.columns = [col[-1] ...]: the last level of each label *)
Flatten(df) ==
    IF IsMultiIndex(df)
    THEN [df EXCEPT !.columns =
             [c \in 1..Len(df.columns) |-> TickerLabel(df.columns[c].ticker)],
                   !.nlevels = 1]
    ELSE df

(* A rerun request of the user (a widget change) during a script run.  The *)
(* run honours it at its next st.* call that sends a message to the        *)
(* browser, by an exception that `except Exception` does not catch, also   *)
(* when the call is made while another exception unwinds a spinner.        *)
(* "before_call": pending before the call of the line begins (honoured by  *)
(* st.warning at line 87, or when the spinner of line 101 opens);          *)
(* "during_call": made while the call runs (honoured when a spinner        *)
(* closes, whether the call returned or raised: the spinner of             *)
(* st.cache_data after a download at line 102, the spinner of line 101     *)
(* after line 103).  A cache hit at line 102 opens no spinner, so the      *)
(* request stays pending through line 103.                                 *)
RerunRequests == {"none", "before_call", "during_call"}

(* Whether the spinner of st.cache_data closes after the value is stored   *)
(* or before: it depends on the installed Streamlit                        *)
StreamlitBuilds == {"store_then_spinner_exit", "spinner_exit_then_store"}

Rerun == Error("RerunException", "rerun_requested")

(* Lines 84-102 of one script run, the text area holding the fields        *)
(* `selected`: st.warning and st.stop() without tickers; then _load_data,  *)
(* answered resp if it downloads; st.stop() on an exception.               *)
(* [pc, result, frame, io, cache, pending]: pc is "loaded" when the run    *)
(* goes on to line 103 with the price table `frame`, "done" when it has    *)
(* ended                                                                   *)
load_step(c, selected, days, now, resp, request, build) ==
    LET tickers == SidebarTickers(selected)
    IN  IF tickers = <<>>
        THEN [pc |-> "done",
              result |-> IF request = "none"
                         THEN Error("Stop", "no_tickers") ELSE Rerun,
              frame |-> EmptyFrame, io |-> <<>>, cache |-> c,
              pending |-> FALSE]
        ELSE IF request = "before_call"
        THEN [pc |-> "done", result |-> Rerun,
              frame |-> EmptyFrame, io |-> <<>>, cache |-> c,
              pending |-> FALSE]
        ELSE LET l == load_data(c, tickers, days, now, resp)
             IN  IF request = "during_call" /\ l.io # <<>>
                 THEN [pc |-> "done", result |-> Rerun,
                       frame |-> EmptyFrame, io |-> l.io,
                       cache |-> IF build = "spinner_exit_then_store"
                                 THEN LiveEntries(c, now)
                                 ELSE l.cache,
                       pending |-> FALSE]
                 ELSE IF l.result # Ok
                 THEN [pc |-> "done", result |-> l.result,
                       frame |-> EmptyFrame, io |-> l.io, cache |-> l.cache,
                       pending |-> FALSE]
                 ELSE [pc |-> "loaded", result |-> Ok,
                       frame |-> l.frame, io |-> l.io, cache |-> l.cache,
                       pending |-> request = "during_call"]

(* Lines 103-127 of the script run that holds the price table `prices`:    *)
(* rank_top_performers, answered resp; the spinner of line 101 closes,     *)
(* honouring a rerun request made before or during the call; the labels of *)
(* the price table are flattened; st.stop() on an exception.               *)
(* [result, frame, summary, io]                                            *)
rank_step(prices, selected, days, top_n, resp, request) ==
    LET r == rank_top_performers(SidebarTickers(selected), days, top_n, resp)
    IN  IF request # "none"
        THEN [result |-> Rerun, frame |-> EmptyFrame,
              summary |-> <<>>, io |-> r.io]
        ELSE IF r.result # Ok
        THEN [result |-> r.result, frame |-> EmptyFrame,
              summary |-> <<>>, io |-> r.io]
        ELSE [result |-> Ok, frame |-> Flatten(prices),
              summary |-> r.summary, io |-> r.io]

----------------------------------------------------------------------------
(* The state machine: a caller makes one call, which runs to its end *)

(* The calls a caller makes *)
Calls ==
    {[op |-> "fetch_history", tickers |-> t, days |-> d, top_n |-> 0, now |-> 0] :
        t \in TickerInputs, d \in 0..MaxDays}
    \cup {[op |-> o, tickers |-> t, days |-> d, top_n |-> n, now |-> 0] :
            o \in {"rank_top_performers", "format_summary"},
            t \in TickerInputs, d \in 0..MaxDays, n \in 0..MaxTop}

(* The calls of fetch_history with valid arguments, on the day `now` *)
WindowCalls ==
    {[op |-> "fetch_history", tickers |-> t, days |-> d, top_n |-> 0, now |-> n] :
        t \in {u \in TickerInputs : NormalizeTickers(u) # <<>>},
        d \in 1..MaxWindowDays, n \in 0..6}

Called(calls) ==
    /\ pc = "called"
    /\ call \in calls
    /\ downloads = <<>>
    /\ closes = EmptyFrame
    /\ summary = <<>>
    /\ melted = <<>>
    /\ result = Ok
    /\ exit_status = NoExit
    /\ cache = {}
    /\ clock = 0
    /\ runs = 0
    /\ others = 0
    /\ pending = FALSE
    /\ feed \in Feeds(call)

Init == Called(Calls)

FetchHistory ==
    /\ pc = "called"
    /\ call.op = "fetch_history"
    /\ \E shape \in AnswerShapes(call.tickers, call.days, MaxDates) :
        \E resp \in Answers(call.tickers, shape) :
            \E r \in {fetch_history(call.tickers, call.days, resp)} :
                /\ downloads' = r.io
                /\ closes' = r.frame
                /\ result' = r.result
    /\ pc' = "done"
    /\ UNCHANGED <<call, summary, melted, cli_vars, dash_vars>>

RankTopPerformers ==
    /\ pc = "called"
    /\ call.op = "rank_top_performers"
    /\ \E shape \in AnswerShapes(call.tickers,
                                 IF call.top_n > 0 THEN call.days ELSE 0,
                                 MaxRankDates) :
        \E resp \in Answers(call.tickers, shape) :
            \E r \in {rank_top_performers(call.tickers, call.days,
                                          call.top_n, resp)} :
                /\ downloads' = r.io
                /\ closes' = r.frame
                /\ summary' = r.summary
                /\ result' = r.result
    /\ pc' = "done"
    /\ UNCHANGED <<call, melted, cli_vars, dash_vars>>

(* What the provider may answer to the second download of a run whose      *)
(* first download it answered resp1                                        *)
SecondAnswers(resp1) == {resp1, RaiseResponse}

FormatSummary ==
    /\ pc = "called"
    /\ call.op = "format_summary"
    /\ \E shape \in AnswerShapes(call.tickers, call.days, MaxRankDates) :
        \E resp1 \in Answers(call.tickers, shape) :
            \E resp2 \in SecondAnswers(resp1) :
                \E r \in {format_summary(call.tickers, call.days, call.top_n,
                                         resp1, resp2)} :
                    /\ downloads' = r.io
                    /\ closes' = r.frame
                    /\ summary' = r.summary
                    /\ result' = r.result
    /\ pc' = "done"
    /\ UNCHANGED <<call, melted, cli_vars, dash_vars>>

(* merge_top_history on the summary and the price table of a ranking *)
MergeTopHistory ==
    /\ pc = "done"
    /\ call.op = "rank_top_performers"
    /\ result = Ok
    /\ \E pandas \in PandasBuilds :
        \E m \in {merge_top_history(summary, closes, pandas)} :
           /\ melted' = m.melted
           /\ result' = m.result
    /\ call' = [call EXCEPT !.op = "merge_top_history"]
    /\ UNCHANGED <<pc, downloads, closes, summary, cli_vars, dash_vars>>

Next ==
    \/ FetchHistory
    \/ RankTopPerformers
    \/ FormatSummary
    \/ MergeTopHistory

Spec == Init /\ [][Next]_vars

(* The calendar specification: fetch_history with valid arguments on the   *)
(* day call.now, answered by a provider that is complete on the requested  *)
(* window                                                                  *)
InitWindow == Called(WindowCalls)

FetchHistoryComplete ==
    /\ pc = "called"
    /\ call.op = "fetch_history"
    /\ \E resp \in CompleteResponses(NormalizeTickers(call.tickers),
                                     RequestWindow(call.now, call.days)) :
        \E r \in {fetch_history(call.tickers, call.days, resp)} :
            /\ downloads' = r.io
            /\ closes' = r.frame
            /\ result' = r.result
    /\ pc' = "done"
    /\ UNCHANGED <<call, summary, melted, cli_vars, dash_vars>>

NextWindow == FetchHistoryComplete

SpecWindow == InitWindow /\ [][NextWindow]_vars

----------------------------------------------------------------------------
(* The command-line specification: one run of main.main or notifier.main   *)

(* The parsed arguments of a run; notifier.main always notifies *)
CliCalls ==
    {[op |-> "main.main", tickers |-> t, days |-> d, top_n |-> n, now |-> 0,
      notify |-> b] :
        t \in TickerInputs, d \in 0..MaxDays, n \in 0..MaxTop, b \in BOOLEAN}
    \cup {[op |-> "notifier.main", tickers |-> t, days |-> d, top_n |-> n,
           now |-> 0, notify |-> TRUE] :
            t \in TickerInputs, d \in 0..MaxDays, n \in 0..MaxTop}

InitCli == Called(CliCalls)

MainMain ==
    /\ pc = "called"
    /\ call.op = "main.main"
    /\ \E shape \in AnswerShapes(call.tickers,
                                 IF call.top_n > 0 THEN call.days ELSE 0,
                                 MaxRunDates) :
        \E resp1 \in Answers(call.tickers, shape) :
            \E resp2 \in SecondAnswers(resp1), fails \in BOOLEAN :
                \E r \in {main_main(call, resp1, resp2, fails)} :
                    /\ downloads' = r.io
                    /\ closes' = r.frame
                    /\ summary' = r.summary
                    /\ result' = r.result
                    /\ exit_status' = r.exit_status
    /\ pc' = "done"
    /\ UNCHANGED <<call, melted, dash_vars>>

NotifierMain ==
    /\ pc = "called"
    /\ call.op = "notifier.main"
    /\ \E shape \in AnswerShapes(call.tickers,
                                 IF call.top_n > 0 THEN call.days ELSE 0,
                                 MaxRunDates) :
        \E resp1 \in Answers(call.tickers, shape) :
            \E resp2 \in SecondAnswers(resp1), fails \in BOOLEAN :
                \E r \in {notifier_main(call, resp1, resp2, fails)} :
                    /\ downloads' = r.io
                    /\ closes' = r.frame
                    /\ summary' = r.summary
                    /\ result' = r.result
                    /\ exit_status' = r.exit_status
    /\ pc' = "done"
    /\ UNCHANGED <<call, melted, dash_vars>>

NextCli ==
    \/ MainMain
    \/ NotifierMain

SpecCli == InitCli /\ [][NextCli]_vars

----------------------------------------------------------------------------
(* The pipeline specification: a call of format_summary against a provider *)
(* whose data may change between the two downloads, and the script runs of *)
(* a dashboard                                                             *)

(* The responses that differ from resp in one price of the latest date *)
Revisions(resp) ==
    IF resp.kind \in {"raise", "malformed"} \/ Len(resp.frame.index) = 0
    THEN {}
    ELSE LET n == Len(resp.frame.index)
         IN  {[resp EXCEPT !.frame.values[n][c] = v] :
                 c \in 1..Len(resp.frame.columns), v \in Cells} \ {resp}

RevisedAnswers(resp1) == SecondAnswers(resp1) \cup Revisions(resp1)

(* The sessions of a dashboard, by the text area and the first positions   *)
(* of the sliders.  Within a session the user moves the days slider only.  *)
DashboardCalls ==
    {[op |-> "dashboard", tickers |-> t, days |-> d, top_n |-> n, now |-> 0] :
        t \in TickerInputs, d \in SliderDays, n \in SliderTops}

(* The seconds between two script runs on the server *)
RerunDelays == {0, 1, CacheTtl + 1}

PipelineCalls ==
    {c \in Calls : c.op = "format_summary"} \cup DashboardCalls

InitPipeline == Called(PipelineCalls)

FormatSummaryRevised ==
    /\ pc = "called"
    /\ call.op = "format_summary"
    /\ \E shape \in AnswerShapes(call.tickers, call.days, MaxRunDates) :
        \E resp1 \in Answers(call.tickers, shape) :
            \E resp2 \in RevisedAnswers(resp1) :
                \E r \in {format_summary(call.tickers, call.days, call.top_n,
                                         resp1, resp2)} :
                    /\ downloads' = r.io
                    /\ closes' = r.frame
                    /\ summary' = r.summary
                    /\ result' = r.result
    /\ pc' = "done"
    /\ UNCHANGED <<call, melted, cli_vars, dash_vars>>

(* The time of a script run that starts `delay` seconds after the latest:  *)
(* the first run on the server is at time 0                                *)
RunTime(delay) == IF runs = 0 /\ others = 0 THEN 0 ELSE clock + delay

(* Lines 84-102 of a script run of the dashboard: the first run of the     *)
(* session, or a rerun with the days slider at d, `delay` seconds after    *)
(* the latest run on the server.  The feed may have restated its prices    *)
(* before the download (m), and the download may fail.                     *)
DashboardLoad ==
    /\ call.op = "dashboard"
    /\ pc \in {"called", "done"}
    /\ runs < MaxRuns
    /\ \E d \in SliderDays, delay \in RerunDelays, m \in {0, 1},
          fail \in BOOLEAN, request \in RerunRequests,
          build \in StreamlitBuilds :
        LET now == RunTime(delay)
            moved == [feed EXCEPT !.tick = (feed.tick + m) % MaxPrice]
            resp == IF fail THEN RaiseResponse
                    ELSE FeedResponse(SidebarTickers(call.tickers),
                                      RequestWindow(call.now, d), moved)
        IN  /\ runs = 0 => d = call.days
            /\ \E r \in {load_step(cache, call.tickers, d, now, resp,
                                   request, build)} :
                   /\ pc' = r.pc
                   /\ downloads' = r.io
                   /\ closes' = r.frame
                   /\ result' = r.result
                   /\ cache' = r.cache
                   /\ pending' = r.pending
                   /\ feed' = IF r.io = <<>> THEN feed ELSE moved
            /\ call' = [call EXCEPT !.days = d]
            /\ clock' = now
    /\ summary' = <<>>
    /\ runs' = runs + 1
    /\ UNCHANGED <<melted, others, cli_vars>>

(* Lines 103-127 of the script run that has loaded its price table *)
DashboardRank ==
    /\ call.op = "dashboard"
    /\ pc = "loaded"
    /\ \E m \in {0, 1}, fail \in BOOLEAN, request \in RerunRequests :
        LET moved == [feed EXCEPT !.tick = (feed.tick + m) % MaxPrice]
            resp == IF fail THEN RaiseResponse
                    ELSE FeedResponse(SidebarTickers(call.tickers),
                                      RequestWindow(call.now, call.days),
                                      moved)
        IN  /\ request = "before_call" <=> pending
            /\ \E r \in {rank_step(closes, call.tickers, call.days,
                                   call.top_n, resp, request)} :
                   /\ downloads' = downloads \o r.io
                   /\ closes' = r.frame
                   /\ summary' = r.summary
                   /\ result' = r.result
                   /\ feed' = IF r.io = <<>> THEN feed ELSE moved
    /\ pc' = "done"
    /\ pending' = FALSE
    /\ UNCHANGED <<call, melted, cache, clock, runs, others, cli_vars>>

(* Line 102 of a script run of another session with the same text area and *)
(* the days slider at d, `delay` seconds after the latest run on the       *)
(* server: the sessions of a server share the cache                        *)
OtherSessionLoad ==
    /\ call.op = "dashboard"
    /\ others < MaxOtherRuns
    /\ SidebarTickers(call.tickers) # <<>>
    /\ \E d \in SliderDays, delay \in RerunDelays, m \in {0, 1},
          fail \in BOOLEAN :
        LET now == RunTime(delay)
            tickers == SidebarTickers(call.tickers)
            moved == [feed EXCEPT !.tick = (feed.tick + m) % MaxPrice]
            resp == IF fail THEN RaiseResponse
                    ELSE FeedResponse(tickers, RequestWindow(call.now, d),
                                      moved)
        IN  \E l \in {load_data(cache, tickers, d, now, resp)} :
                /\ cache' = l.cache
                /\ feed' = IF l.io = <<>> THEN feed ELSE moved
                /\ clock' = now
    /\ others' = others + 1
    /\ UNCHANGED <<pc, call, downloads, closes, summary, melted, result,
                   runs, pending, cli_vars>>

NextPipeline ==
    \/ FormatSummaryRevised
    \/ DashboardLoad
    \/ DashboardRank
    \/ OtherSessionLoad

SpecPipeline == InitPipeline /\ [][NextPipeline]_vars

----------------------------------------------------------------------------
(* Properties *)

(* The position of the column of df labelled `label`, 0 if there is none *)
ColumnOf(df, label) ==
    IF \E c \in 1..Len(df.columns) : df.columns[c] = label
    THEN CHOOSE c \in 1..Len(df.columns) : df.columns[c] = label
    ELSE 0

Returned(op) == pc = "done" /\ call.op = op /\ result = Ok

(* The frame of the price group the call downloaded (its only download, or *)
(* the last one)                                                           *)
Downloaded == downloads[Len(downloads)].frame

(* The columns of raw with some price, and the dates at which each of them *)
(* has one: the normalized table, stated on the raw frame                  *)
DataColumns(raw) ==
    {c \in 1..Len(raw.columns) : \E r \in 1..Len(raw.index) : raw.values[r][c] # NaN}

DenseDates(raw) ==
    {r \in 1..Len(raw.index) : \A c \in DataColumns(raw) : raw.values[r][c] # NaN}

InvalidArgument ==
    {Error("ValueError", m) :
        m \in {"no_tickers", "bad_days", "no_valid_tickers", "bad_top_n"}}

DataUnavailable == Error("ValueError", "no_price_data")

RetrievalFailure == Error("RuntimeError", "download_failed")

(* C1 as stated: in the summary of rank_top_performers, every row's        *)
(* pct_change is >= the next row's                                         *)
C1_Original ==
    Returned("rank_top_performers") =>
        \A i \in 1..(Len(summary) - 1) :
            PctGe(summary[i].pct_change, summary[i + 1].pct_change)

(* C1, amended: in the summary of rank_top_performers the rows whose       *)
(* pct_change is nan (first and last price both 0) come after all others,  *)
(* and over the others pct_change is non-increasing                        *)
C1_SortedNanLast ==
    Returned("rank_top_performers") =>
        \A i \in 1..(Len(summary) - 1) :
            \/ summary[i + 1].pct_change.k = "nan"
            \/ PctGe(summary[i].pct_change, summary[i + 1].pct_change)

(* A ranking of two tickers that the sort has reordered *)
C1_Witness ==
    /\ Returned("rank_top_performers")
    /\ Len(summary) = 2
    /\ summary[1].ticker = closes.columns[2]
    /\ PctGt(summary[1].pct_change, summary[2].pct_change)

(* C2: the summary has min(top_n, number of columns of the normalized      *)
(* table) rows, each a distinct column of the table                        *)
C2_RowCount ==
    Returned("rank_top_performers") =>
        /\ Len(summary) =
              Min(call.top_n, Cardinality(DataColumns(Downloaded)))
        /\ \A i, j \in 1..Len(summary) :
              summary[i].ticker = summary[j].ticker => i = j
        /\ \A i \in 1..Len(summary) :
              summary[i].ticker \in SeqRange(closes.columns)

(* A ranking truncated to top_n = 1 of two tickers *)
C2_Witness ==
    /\ Returned("rank_top_performers")
    /\ call.top_n = 1
    /\ Len(closes.columns) = 2
    /\ Len(summary) = 1

(* C3: a call with an invalid argument raises InvalidArgument, and has     *)
(* issued no download                                                      *)
HasInvalidArgument ==
    \/ NormalizeTickers(call.tickers) = <<>>
    \/ call.days <= 0
    \/ call.op \in {"rank_top_performers", "format_summary"} /\ call.top_n <= 0

C3_InvalidBeforeIO ==
    (/\ pc = "done"
     /\ call.op \in {"fetch_history", "rank_top_performers", "format_summary"}
     /\ HasInvalidArgument)
        => result \in InvalidArgument /\ downloads = <<>>

(* C4: fetch_history never returns an empty table: when no column has a   *)
(* price, or no date has a price in every column that has one, it raises   *)
(* DataUnavailable                                                         *)
C4_NeverEmpty ==
    /\ Returned("fetch_history") => ~IsEmpty(closes)
    /\ (/\ pc = "done"
        /\ call.op = "fetch_history"
        /\ downloads # <<>>
        /\ downloads[1].kind = "nested"
        /\ DenseDates(Downloaded) = {} \/ DataColumns(Downloaded) = {})
            => result = DataUnavailable

(* C5: the table fetch_history returns is the last min(days, n) dates of   *)
(* the dates at which every column with data has a price, in ascending     *)
(* order, over the columns with data, with the provider's prices; and a    *)
(* column without data does not make the call fail                         *)
PriceGroup(raw) ==
    IF HasAdjClose(raw) THEN SelectAdjClose(raw) ELSE raw

C5_ReturnedTable ==
    /\ Returned("fetch_history") =>
        LET raw == PriceGroup(Downloaded)
            cols == DataColumns(raw)
            dates == DenseDates(raw)
            kept == {d \in dates :
                        Cardinality({e \in dates : e > d}) < call.days}
        IN  /\ Len(closes.index) = Min(call.days, Cardinality(dates))
            /\ SeqRange(closes.index) = kept
            /\ \A i \in 1..(Len(closes.index) - 1) :
                   closes.index[i] < closes.index[i + 1]
            /\ Len(closes.columns) = Cardinality(cols)
            /\ \A c \in cols :
                   LET j == Cardinality({b \in cols : b <= c})
                   IN  /\ closes.columns[j] = raw.columns[c]
                       /\ \A i \in 1..Len(closes.index) :
                              /\ closes.values[i][j] # NaN
                              /\ closes.values[i][j] =
                                     raw.values[closes.index[i]][c]
    /\ (/\ pc = "done"
        /\ call.op = "fetch_history"
        /\ downloads # <<>>
        /\ downloads[1].kind = "nested"
        /\ DataColumns(Downloaded) # {}) => result = Ok

(* A table returned after a column without data and a date with a missing  *)
(* price were dropped and the window was trimmed to days = 1               *)
C5_Witness ==
    /\ Returned("fetch_history")
    /\ call.days = 1
    /\ Len(Downloaded.columns) = 2
    /\ Len(Downloaded.index) = 3
    /\ Cardinality(DenseDates(Downloaded)) = 2
    /\ Len(closes.columns) = 1
    /\ Len(closes.index) = 1

(* C6: against a provider that has a price of every requested ticker on    *)
(* every weekday of the requested window, fetch_history returns exactly    *)
(* `days` rows                                                             *)
C6_Original ==
    (pc = "done" /\ call.op = "fetch_history") =>
        result = Ok /\ Len(closes.index) = call.days

(* C7: every column label of the table fetch_history returns is one of the *)
(* requested normalized ticker symbols, and no label occurs twice          *)
C7_TickerColumns ==
    Returned("fetch_history") =>
        /\ \A c \in 1..Len(closes.columns) :
              /\ closes.columns[c].field = NoField
              /\ closes.columns[c].ticker
                    \in SeqRange(NormalizeTickers(call.tickers))
        /\ \A c, d \in 1..Len(closes.columns) :
              closes.columns[c] = closes.columns[d] => c = d

(* C8: merge_top_history returns exactly one row for each date of the      *)
(* price table and each ticker of the summary, with the table's price      *)
SummaryInTable ==
    \A i \in 1..Len(summary) : summary[i].ticker \in SeqRange(closes.columns)

C8_Reshape ==
    (pc = "done" /\ call.op = "merge_top_history" /\ SummaryInTable) =>
        /\ result = Ok
        /\ Len(melted) = Len(closes.index) * Len(summary)
        /\ \A r \in 1..Len(closes.index) : \A i \in 1..Len(summary) :
              Cardinality({m \in 1..Len(melted) :
                  /\ melted[m].Date = closes.index[r]
                  /\ melted[m].ticker = summary[i].ticker}) = 1
        /\ \A m \in 1..Len(melted) :
              \E r \in 1..Len(closes.index), c \in 1..Len(closes.columns) :
                  /\ melted[m].Date = closes.index[r]
                  /\ melted[m].ticker = closes.columns[c]
                  /\ melted[m].price = closes.values[r][c]
                  /\ \E i \in 1..Len(summary) :
                        summary[i].ticker = closes.columns[c]

(* C9: a failure of the upstream source (the download raises, or returns   *)
(* what is no frame) reaches the caller as RetrievalFailure                *)
C9_RetrievalFailure ==
    (/\ pc = "done"
     /\ call.op = "fetch_history"
     /\ downloads # <<>>
     /\ downloads[1].kind \in {"raise", "malformed"})
        => result = RetrievalFailure

(* C10 as stated, on the rows whose start_price is not 0: each row's       *)
(* pct_change equals the rounded percentage computed from the row's own    *)
(* rounded start_price and end_price                                       *)
C10_Original ==
    Returned("rank_top_performers") =>
        \A i \in 1..Len(summary) :
            summary[i].start_price # 0 =>
                PctEq(summary[i].pct_change, PctOfRounded(summary[i]))

(* C10, amended: each row's start_price and end_price are the ticker's     *)
(* first and last price of the table rounded to cents, and its pct_change  *)
(* is the percentage computed from the unrounded first and last price,     *)
(* rounded to the nearest hundredth (inf when only the first is 0, nan     *)
(* when both are 0)                                                        *)
C10_PctOfUnrounded ==
    Returned("rank_top_performers") =>
        \A i \in 1..Len(summary) :
            LET c == ColumnOf(closes, summary[i].ticker)
                s == closes.values[1][c]
                e == closes.values[Len(closes.index)][c]
                p == summary[i].pct_change
                Abs(x) == IF x < 0 THEN 0 - x ELSE x
            IN  /\ c # 0
                /\ 2 * Abs(summary[i].start_price * PriceDenom - s * 100)
                       <= PriceDenom
                /\ 2 * Abs(summary[i].end_price * PriceDenom - e * 100)
                       <= PriceDenom
                /\ s # 0 => /\ p.k = "num"
                            /\ 2 * Abs(p.v * s - (e - s) * 10000) <= s
                /\ (s = 0 /\ e # 0) => p.k = "inf"
                /\ (s = 0 /\ e = 0) => p.k = "nan"

(* A row whose pct_change differs from the percentage of its rounded       *)
(* prices: 0.125 -> 0.25 is +100%, 0.12 -> 0.25 is +108.33%                *)
C10_Witness ==
    /\ Returned("rank_top_performers")
    /\ \E i \in 1..Len(summary) :
          /\ summary[i].pct_change.k = "num"
          /\ summary[i].start_price # 0
          /\ summary[i].pct_change # PctOfRounded(summary[i])

(* C11: a run of main.main or notifier.main with --days <= 0 or            *)
(* --top <= 0, or whose retrieval or ranking failed, ends with a non-zero  *)
(* exit status                                                             *)
PipelineFailed ==
    result # Ok /\ result # Error("Exception", "notification_failed")

C11_NonZeroExit ==
    (/\ pc = "done"
     /\ call.op \in {"main.main", "notifier.main"}
     /\ call.days <= 0 \/ call.top_n <= 0 \/ PipelineFailed)
        => exit_status.exited /\ exit_status.code # 0

(* C12: a script run of the dashboard whose (tickers, days) a run has      *)
(* loaded less than CacheTtl seconds before issues no download: none in    *)
(* lines 84-102, and none in lines 103-127 after its table came from the   *)
(* cache                                                                   *)
LoadedWithinTtl(tickers, days, now) ==
    \E e \in cache :
        /\ e.tickers = tickers
        /\ e.days = days
        /\ now - e.time < CacheTtl

C12_NoDownloadOnRerun ==
    [][/\ (/\ call'.op = "dashboard"
           /\ runs' = runs + 1
           /\ LoadedWithinTtl(SidebarTickers(call'.tickers), call'.days,
                              clock'))
              => downloads' = <<>>
       /\ (/\ call.op = "dashboard"
           /\ pc = "loaded"
           /\ pc' = "done"
           /\ downloads = <<>>)
              => downloads' = <<>>]_vars

(* C13: after format_summary or the load step of the dashboard, every      *)
(* ticker of the summary is a column of the price table the run holds, and *)
(* the row's start_price and end_price are the rounded first and last      *)
(* price of that column.  Stated on the runs whose downloads all returned  *)
(* a price for every ticker and date.                                      *)
DenseDownloads ==
    \A k \in 1..Len(downloads) :
        /\ downloads[k].kind = "nested"
        /\ Len(downloads[k].frame.index) > 0
        /\ \A r \in 1..Len(downloads[k].frame.index) :
              \A c \in 1..Len(downloads[k].frame.columns) :
                  downloads[k].frame.values[r][c] # NaN

C13_SummaryOfHeldTable ==
    (/\ pc = "done"
     /\ call.op \in {"format_summary", "dashboard"}
     /\ result = Ok
     /\ DenseDownloads)
        => \A i \in 1..Len(summary) :
              LET c == ColumnOf(closes, summary[i].ticker)
              IN  /\ c # 0
                  /\ Len(closes.index) > 0
                  /\ summary[i].start_price = RoundPrice(closes.values[1][c])
                  /\ summary[i].end_price =
                        RoundPrice(closes.values[Len(closes.index)][c])

====
